---------------------------- MODULE Spec2Model ----------------------------
(***************************************************************************)
(* Model of proyecto_final_ETL.py: the paged download                      *)
(* (descargar_datos_completos), the cleaning pass (limpiar_datos), the     *)
(* chart stage (generar_visualizaciones) and the entry point               *)
(* (prefetch_mensual, ejecutar_pipeline, __main__).                        *)
(*                                                                         *)
(* Text is a sequence of Unicode code points.  A cell of a table is a      *)
(* tagged record: Null (None / NaN / NaT), Str(s) or Date(y, m, d).        *)
(***************************************************************************)
EXTENDS Integers, Sequences, FiniteSets, TLC

VARIABLES
    \* ---- descargar_datos_completos
    responses,   \* what the server answers to the 1st, 2nd, ... request
    requests,    \* the $offset of every request issued so far
    response,    \* the response being handled (local `response`)
    all_data,    \* local `all_data`: the pages kept so far
    offset,      \* local `offset`
    fpc,         \* position in descargar_datos_completos
    fetched,     \* the table returned by descargar_datos_completos
    \* ---- limpiar_datos
    raw_in,      \* the raw table as it was when limpiar_datos was called
    raw_df,      \* the caller's table object
    df,          \* local `df` of limpiar_datos
    aliased,     \* TRUE while local `df` is still the caller's object
    cpc,         \* position in limpiar_datos
    \* ---- generar_visualizaciones
    rapido,      \* parameter `rapido`
    clean_in,    \* the clean table as it was when the stage was called
    heap,        \* table objects by identity: 1 is the caller's table
    vdf,         \* identity of the object local `df` is bound to
    draws,       \* seeds of the df.sample calls made so far
    charts,      \* per chart section: the object and the rows it read
    vpc,         \* position in generar_visualizaciones
    \* ---- entry point
    file_exists, \* colombianos_detenidos_limpio.csv exists
    file_age,    \* its age in whole days (0 when it does not exist)
    file0,       \* <<file_exists, file_age>> when the process started
    runs,        \* `rapido` of every ejecutar_pipeline call, in call order
    caller,      \* who called the running ejecutar_pipeline: "gate" / "main"
    mpc          \* position in the entry point

fetchVars == <<responses, requests, response, all_data, offset, fpc, fetched>>
cleanVars == <<raw_in, raw_df, df, aliased, cpc>>
vizVars   == <<rapido, clean_in, heap, vdf, draws, charts, vpc>>
mainVars  == <<file_exists, file_age, file0, runs, caller, mpc>>
vars      == <<fetchVars, cleanVars, vizVars, mainVars>>

-----------------------------------------------------------------------------
(* Bounds of the model *)

\* longest server script: responses the server has ready
MaxResponses == 4
\* most rows of a raw table handed to limpiar_datos
MaxRows == 2
\* most columns of a raw table handed to limpiar_datos
MaxCols == 2

-----------------------------------------------------------------------------
(* Generic helpers *)

RECURSIVE Flatten(_)
\* pd.concat(pages, ignore_index=True): the rows of the pages, page after page
Flatten(pages) ==
    IF pages = <<>> THEN <<>> ELSE Head(pages) \o Flatten(Tail(pages))

RECURSIVE SelectIdx(_, _, _)
\* the indices i of 1..n, ascending, for which keep[i] holds
SelectIdx(keep, i, n) ==
    IF i > n THEN <<>>
    ELSE (IF keep[i] THEN <<i>> ELSE <<>>) \o SelectIdx(keep, i + 1, n)

-----------------------------------------------------------------------------
(* descargar_datos_completos *)

\* `limit`: the page size, and the step of $offset
limit == 50000

\* HTTP status of a successful page
HTTP_OK == 200

\* the statuses a server script may hold
Statuses == {200, 500}

\* page bodies: a parsed page is a sequence of rows (row identifiers)
Pages == { <<>>, <<"r1">>, <<"r2", "r1">> }

Responses == [status : Statuses, page : Pages]

\* a response after which the loop stops
Terminal(r) == r.status # HTTP_OK \/ r.page = <<>>

\* server scripts: at most MaxResponses responses, the loop is sure to meet
\* a terminal one (the script's last), and may hold terminal ones earlier
Scripts ==
    { s \in UNION { [1..n -> Responses] : n \in 1..MaxResponses } :
        Terminal(s[Len(s)]) }

FetchIdle ==
    /\ responses = <<>> /\ requests = <<>> /\ response = [status |-> 0, page |-> <<>>]
    /\ all_data = <<>> /\ offset = 0 /\ fpc = "idle" /\ fetched = <<>>

\* descargar_datos_completos called against server script s, at line 29
FetchCalled(s) ==
    /\ responses = s /\ requests = <<>> /\ response = [status |-> 0, page |-> <<>>]
    /\ all_data = <<>> /\ offset = 0 /\ fpc = "request" /\ fetched = <<>>

\* lines 25-27: all_data = [], offset = 0, against server script s
FetchBegin(s) ==
    /\ responses' = s
    /\ requests' = <<>>
    /\ response' = [status |-> 0, page |-> <<>>]
    /\ all_data' = <<>>
    /\ offset' = 0
    /\ fetched' = <<>>
    /\ fpc' = "request"

\* lines 30-31: requests.get(base_url, {"$limit": limit, "$offset": offset})
FetchRequest ==
    /\ fpc = "request"
    /\ Len(requests) < Len(responses)
    /\ requests' = Append(requests, offset)
    /\ response' = responses[Len(requests) + 1]
    /\ fpc' = "handle"
    /\ UNCHANGED <<responses, all_data, offset, fetched>>

\* lines 33-44: the status check, the empty-page check, the append
FetchHandle ==
    /\ fpc = "handle"
    /\ IF response.status # HTTP_OK
         THEN /\ fpc' = "concat"
              /\ UNCHANGED <<all_data, offset>>
         ELSE IF response.page = <<>>
         THEN /\ fpc' = "concat"
              /\ UNCHANGED <<all_data, offset>>
         ELSE /\ all_data' = Append(all_data, response.page)
              /\ offset' = offset + limit
              /\ fpc' = "request"
    /\ UNCHANGED <<responses, requests, response, fetched>>

\* lines 46-48: pd.concat(all_data, ignore_index=True) raises ValueError
\* ("No objects to concatenate") on an empty list
FetchConcat ==
    /\ fpc = "concat"
    /\ IF all_data = <<>>
         THEN /\ fpc' = "raised"
              /\ UNCHANGED fetched
         ELSE /\ fetched' = Flatten(all_data)
              /\ fpc' = "returned"
    /\ UNCHANGED <<responses, requests, response, all_data, offset>>

FetchStep == FetchRequest \/ FetchHandle \/ FetchConcat

-----------------------------------------------------------------------------
(* Text: str.encode('latin1'), bytes.decode('utf-8'), unicodedata, str methods *)

\* x.encode('latin1') raises UnicodeEncodeError on a code point above U+00FF;
\* otherwise byte i is code point i
Latin1Encodable(s) == \A i \in 1..Len(s) : s[i] <= 255

\* a UTF-8 continuation byte
Cont(b) == b >= 128 /\ b <= 191

\* how many bytes the well-formed UTF-8 sequence at the head of b takes
\* (0: none, which is a UnicodeDecodeError of the strict decoder)
Utf8Width(b) ==
    LET n  == Len(b)
        b1 == b[1]
    IN  IF b1 <= 127 THEN 1
        ELSE IF b1 >= 194 /\ b1 <= 223
            THEN IF n >= 2 /\ Cont(b[2]) THEN 2 ELSE 0
        ELSE IF b1 >= 224 /\ b1 <= 239
            THEN IF /\ n >= 3
                    /\ Cont(b[2]) /\ Cont(b[3])
                    /\ (b1 = 224 => b[2] >= 160)
                    /\ (b1 = 237 => b[2] <= 159)
                 THEN 3 ELSE 0
        ELSE IF b1 >= 240 /\ b1 <= 244
            THEN IF /\ n >= 4
                    /\ Cont(b[2]) /\ Cont(b[3]) /\ Cont(b[4])
                    /\ (b1 = 240 => b[2] >= 144)
                    /\ (b1 = 244 => b[2] <= 143)
                 THEN 4 ELSE 0
        ELSE 0

\* the code point of the w-byte sequence at the head of b
Utf8CodePoint(b, w) ==
    CASE w = 1 -> b[1]
      [] w = 2 -> (b[1] - 192) * 64 + (b[2] - 128)
      [] w = 3 -> (b[1] - 224) * 4096 + (b[2] - 128) * 64 + (b[3] - 128)
      [] w = 4 -> (b[1] - 240) * 262144 + (b[2] - 128) * 4096
                    + (b[3] - 128) * 64 + (b[4] - 128)

RECURSIVE Utf8Valid(_)
\* bytes.decode('utf-8') does not raise
Utf8Valid(b) ==
    IF b = <<>> THEN TRUE
    ELSE LET w == Utf8Width(b)
         IN  w > 0 /\ Utf8Valid(SubSeq(b, w + 1, Len(b)))

RECURSIVE Utf8Decode(_)
\* bytes.decode('utf-8') of a valid byte string
Utf8Decode(b) ==
    IF b = <<>> THEN <<>>
    ELSE LET w == Utf8Width(b)
         IN  <<Utf8CodePoint(b, w)>> \o Utf8Decode(SubSeq(b, w + 1, Len(b)))

\* unicodedata.normalize('NFKD', c) of one code point of U+0000..U+00FF;
\* code points above (combining marks, the euro sign) are their own NFKD
NFKDChar(c) ==
    LET grave == 768  acute == 769  circ == 770  tilde == 771
        diaer == 776  ring == 778   cedil == 807 macron == 772
        \* base letter and mark of the accented capitals U+00C0..U+00DD
        Cap(k) ==
            CASE k \in 192..197 ->
                   <<65, <<grave, acute, circ, tilde, diaer, ring>>[k - 191]>>
              [] k = 199 -> <<67, cedil>>
              [] k \in 200..203 -> <<69, <<grave, acute, circ, diaer>>[k - 199]>>
              [] k \in 204..207 -> <<73, <<grave, acute, circ, diaer>>[k - 203]>>
              [] k = 209 -> <<78, tilde>>
              [] k \in 210..214 ->
                   <<79, <<grave, acute, circ, tilde, diaer>>[k - 209]>>
              [] k \in 217..220 -> <<85, <<grave, acute, circ, diaer>>[k - 216]>>
              [] k = 221 -> <<89, acute>>
              [] OTHER -> <<k>>
    IN  CASE c = 160 -> <<32>>
          [] c = 168 -> <<32, diaer>>
          [] c = 170 -> <<97>>
          [] c = 175 -> <<32, macron>>
          [] c = 178 -> <<50>>
          [] c = 179 -> <<51>>
          [] c = 180 -> <<32, acute>>
          [] c = 181 -> <<956>>
          [] c = 184 -> <<32, cedil>>
          [] c = 185 -> <<49>>
          [] c = 186 -> <<111>>
          [] c = 188 -> <<49, 8260, 52>>
          [] c = 189 -> <<49, 8260, 50>>
          [] c = 190 -> <<51, 8260, 52>>
          [] c \in 192..221 -> Cap(c)
          [] c \in (224..253) \ {230, 240, 247, 248, 254} ->
               LET up == Cap(c - 32)
               IN  IF Len(up) = 2 THEN <<up[1] + 32, up[2]>> ELSE <<c>>
          [] c = 255 -> <<121, diaer>>
          [] OTHER -> <<c>>

\* unicodedata.normalize('NFKD', nombre)
NFKD(s) == Flatten([i \in 1..Len(s) |-> NFKDChar(s[i])])

\* unicodedata.combining(c) != 0, for the code points NFKD yields here
Combining(c) == c \in (768..879) \ {847}

\* str.lower() of one code point of U+0000..U+00FF
LowerChar(c) ==
    IF c \in 65..90 \/ c \in (192..222) \ {215} THEN c + 32 ELSE c

\* str.lower()
Lower(s) == [i \in 1..Len(s) |-> LowerChar(s[i])]

\* str.isspace() of one code point up to U+00FF
IsSpace(c) == c \in 9..13 \/ c \in 28..32 \/ c = 133 \/ c = 160

RECURSIVE LStrip(_)
LStrip(s) == IF s # <<>> /\ IsSpace(Head(s)) THEN LStrip(Tail(s)) ELSE s

RECURSIVE RStrip(_)
RStrip(s) ==
    IF s # <<>> /\ IsSpace(s[Len(s)]) THEN RStrip(SubSeq(s, 1, Len(s) - 1)) ELSE s

\* str.strip()
Strip(s) == RStrip(LStrip(s))

\* str.replace(" ", "_")
SpacesToUnderscores(s) == [i \in 1..Len(s) |-> IF s[i] = 32 THEN 95 ELSE s[i]]

RECURSIVE Decimal(_)
\* f"{n}" of a natural number
Decimal(n) ==
    IF n < 10 THEN <<48 + n>> ELSE Decimal(n \div 10) \o <<48 + (n % 10)>>

-----------------------------------------------------------------------------
(* Tables: [cols : sequence of column names, rows : sequence of rows],      *)
(* a row being a sequence of cells, one per column                          *)

Null == [k |-> "null"]
Str(s) == [k |-> "str", s |-> s]
Date(y, m, d) == [k |-> "date", y |-> y, m |-> m, d |-> d]

IsStr(v) == v.k = "str"

\* the cells of column c, top to bottom
Column(t, c) == [i \in 1..Len(t.rows) |-> t.rows[i][c]]

\* the rows of t picked by the index sequence idx
TakeRows(t, idx) ==
    [cols |-> t.cols, rows |-> [j \in 1..Len(idx) |-> t.rows[idx[j]]]]

\* the positions of the columns called name
ColumnsNamed(t, name) == { c \in 1..Len(t.cols) : t.cols[c] = name }

\* column names and sentinels of the program, as text
fecha_publicacion ==  \* 'fecha_publicacion'
    <<102, 101, 99, 104, 97, 95, 112, 117, 98, 108, 105, 99, 97, 99, 105, 111, 110>>
fecha_texto ==        \* 'fecha_texto'
    <<102, 101, 99, 104, 97, 95, 116, 101, 120, 116, 111>>
Sentinels ==          \* the keys of line 72: 'N/A', 'n/a', ''
    { <<78, 47, 65>>, <<110, 47, 97>>, <<>> }

-----------------------------------------------------------------------------
(* limpiar_datos *)

\* line 62: the lambda's x.encode('latin1').decode('utf-8') raises
RepairRaises(v) ==
    IsStr(v) /\ ~(Latin1Encodable(v.s) /\ Utf8Valid(v.s))

\* line 62: the lambda's value when it does not raise
RepairValue(v) == IF IsStr(v) THEN Str(Utf8Decode(v.s)) ELSE v

\* line 59: select_dtypes(include='object'): the columns holding text
ObjectColumns(t) ==
    { c \in 1..Len(t.cols) : \E i \in 1..Len(t.rows) : IsStr(t.rows[i][c]) }

\* lines 60-65, one column: an exception of any value leaves the try block
\* before the assignment df[col] = ..., so the whole column stays as it was
RepairColumn(col) ==
    IF \E i \in 1..Len(col) : RepairRaises(col[i])
    THEN col
    ELSE [i \in 1..Len(col) |-> RepairValue(col[i])]

\* lines 59-65: every text column, each on its own
RepairTable(t) ==
    LET fixed == [c \in 1..Len(t.cols) |->
                    IF c \in ObjectColumns(t) THEN RepairColumn(Column(t, c))
                    ELSE Column(t, c)]
    IN  [cols |-> t.cols,
         rows |-> [i \in 1..Len(t.rows) |->
                     [c \in 1..Len(t.cols) |-> fixed[c][i]]]]

\* line 68: df.dropna(how='all') keeps the rows with a non-null cell
DropNa(t) ==
    LET keep == [i \in 1..Len(t.rows) |->
                   \E c \in 1..Len(t.cols) : t.rows[i][c] # Null]
    IN  TakeRows(t, SelectIdx(keep, 1, Len(t.rows)))

\* line 69: df.drop_duplicates() keeps the first of equal rows
DropDuplicates(t) ==
    LET keep == [i \in 1..Len(t.rows) |->
                   \A j \in 1..(i - 1) : t.rows[j] # t.rows[i]]
    IN  TakeRows(t, SelectIdx(keep, 1, Len(t.rows)))

\* line 72, one cell
ReplaceCell(v) == IF IsStr(v) /\ v.s \in Sentinels THEN Null ELSE v

\* line 72: df.replace({'N/A': None, 'n/a': None, '': None})
ReplaceSentinels(t) ==
    [cols |-> t.cols,
     rows |-> [i \in 1..Len(t.rows) |->
                 [c \in 1..Len(t.cols) |-> ReplaceCell(t.rows[i][c])]]]

\* line 77: the characters with unicodedata.combining(c) == 0
StripCombining(s) ==
    LET keep == [i \in 1..Len(s) |-> ~Combining(s[i])]
        idx  == SelectIdx(keep, 1, Len(s))
    IN  [j \in 1..Len(idx) |-> s[idx[j]]]

\* lines 75-78
normalizar_columna(nombre) ==
    LET nfkd_form  == NFKD(nombre)
        solo_ascii == StripCombining(nfkd_form)
    IN  SpacesToUnderscores(Strip(Lower(solo_ascii)))

\* line 80: df.columns = [...]: every column keeps its place and its cells
RenameColumns(t) ==
    [cols |-> [c \in 1..Len(t.cols) |-> normalizar_columna(t.cols[c])],
     rows |-> t.rows]

Digit(c) == c \in 48..57

DaysIn(y, m) ==
    IF m = 2
    THEN IF (y % 4 = 0 /\ y % 100 # 0) \/ y % 400 = 0 THEN 29 ELSE 28
    ELSE IF m \in {4, 6, 9, 11} THEN 30 ELSE 31

\* line 84, one cell: pd.to_datetime(..., errors='coerce') of None or of text.
\* Text of the form YYYY-MM-DD naming a calendar day the nanosecond Timestamp
\* holds parses to it; text that is no date in any format gives NaT.  (Text
\* in another date format is outside this model: no input here has one.)
ParseDate(v) ==
    IF ~IsStr(v) THEN Null
    ELSE
      LET s == v.s
          Num(i, j) == IF i = j THEN s[i] - 48
                       ELSE (s[i] - 48) * 10 + (s[j] - 48)
      IN  IF /\ Len(s) = 10
             /\ s[5] = 45 /\ s[8] = 45
             /\ \A i \in {1, 2, 3, 4, 6, 7, 9, 10} : Digit(s[i])
          THEN LET y == Num(1, 2) * 100 + Num(3, 4)
                   m == Num(6, 7)
                   d == Num(9, 10)
               IN  IF /\ y > 1677 /\ y < 2262
                      /\ m \in 1..12
                      /\ d \in 1..DaysIn(y, m)
                   THEN Date(y, m, d) ELSE Null
          ELSE Null

\* lines 85-88
meses(m) ==
    CASE m = 1 -> <<101, 110, 101, 114, 111>>                        \* enero
      [] m = 2 -> <<102, 101, 98, 114, 101, 114, 111>>               \* febrero
      [] m = 3 -> <<109, 97, 114, 122, 111>>                         \* marzo
      [] m = 4 -> <<97, 98, 114, 105, 108>>                          \* abril
      [] m = 5 -> <<109, 97, 121, 111>>                              \* mayo
      [] m = 6 -> <<106, 117, 110, 105, 111>>                        \* junio
      [] m = 7 -> <<106, 117, 108, 105, 111>>                        \* julio
      [] m = 8 -> <<97, 103, 111, 115, 116, 111>>                    \* agosto
      [] m = 9 -> <<115, 101, 112, 116, 105, 101, 109, 98, 114, 101>> \* septiembre
      [] m = 10 -> <<111, 99, 116, 117, 98, 114, 101>>               \* octubre
      [] m = 11 -> <<110, 111, 118, 105, 101, 109, 98, 114, 101>>    \* noviembre
      [] m = 12 -> <<100, 105, 99, 105, 101, 109, 98, 114, 101>>     \* diciembre

\* the lambda with x.day and x.year in each other's place
FechaTexto_YearFirst(x) ==
    IF x # Null
    THEN LET de == <<32, 100, 101, 32>>
         IN  Str(Decimal(x.y) \o de \o meses(x.m) \o de \o Decimal(x.d))
    ELSE Null

\* lines 89-91, the lambda: f"{x.day} de {meses[x.month]} de {x.year}"
FechaTexto(x) ==
    IF x # Null
    THEN LET de == <<32, 100, 101, 32>>
         IN  Str(Decimal(x.d) \o de \o meses(x.m) \o de \o Decimal(x.y))
    ELSE Null

\* lines 84-91 on a table with exactly one column called fecha_publicacion:
\* the column is parsed in place, then df['fecha_texto'] is set (a column of
\* that name is overwritten, otherwise the column is appended)
DeriveDates(t) ==
    LET f      == CHOOSE c \in ColumnsNamed(t, fecha_publicacion) : TRUE
        parsed == [i \in 1..Len(t.rows) |-> ParseDate(t.rows[i][f])]
        texto  == [i \in 1..Len(t.rows) |-> FechaTexto(parsed[i])]
        old    == ColumnsNamed(t, fecha_texto)
        n      == Len(t.cols)
    IN  IF old = {}
        THEN [cols |-> Append(t.cols, fecha_texto),
              rows |-> [i \in 1..Len(t.rows) |->
                          [c \in 1..(n + 1) |->
                             IF c = f THEN parsed[i]
                             ELSE IF c = n + 1 THEN texto[i]
                             ELSE t.rows[i][c]]]]
        ELSE [cols |-> t.cols,
              rows |-> [i \in 1..Len(t.rows) |->
                          [c \in 1..n |->
                             IF c \in old THEN texto[i]
                             ELSE IF c = f THEN parsed[i]
                             ELSE t.rows[i][c]]]]

NoTable == [cols |-> <<>>, rows |-> <<>>]

CleanIdle ==
    /\ raw_in = NoTable /\ raw_df = NoTable /\ df = NoTable
    /\ aliased = FALSE /\ cpc = "idle"

\* line 55: the call binds local df to the caller's table object
CleanBegin(t) ==
    /\ raw_in = t /\ raw_df = t /\ df = t
    /\ aliased = TRUE /\ cpc = "repair"

\* lines 58-65: df[col] = ... writes into the object df is bound to, which
\* is still the caller's
CleanRepair ==
    /\ cpc = "repair"
    /\ df' = RepairTable(df)
    /\ raw_df' = IF aliased THEN RepairTable(df) ELSE raw_df
    /\ cpc' = "dropna"
    /\ UNCHANGED <<raw_in, aliased>>

\* line 68: df is rebound to a new table
CleanDropna ==
    /\ cpc = "dropna"
    /\ df' = DropNa(df)
    /\ aliased' = FALSE
    /\ cpc' = "drop_duplicates"
    /\ UNCHANGED <<raw_in, raw_df>>

\* line 69
CleanDropDuplicates ==
    /\ cpc = "drop_duplicates"
    /\ df' = DropDuplicates(df)
    /\ cpc' = "replace"
    /\ UNCHANGED <<raw_in, raw_df, aliased>>

\* line 72
CleanReplace ==
    /\ cpc = "replace"
    /\ df' = ReplaceSentinels(df)
    /\ cpc' = "rename"
    /\ UNCHANGED <<raw_in, raw_df, aliased>>

\* lines 74-80
CleanRename ==
    /\ cpc = "rename"
    /\ df' = RenameColumns(df)
    /\ cpc' = "dates"
    /\ UNCHANGED <<raw_in, raw_df, aliased>>

\* lines 82-95.  With two columns called fecha_publicacion,
\* df['fecha_publicacion'] is a DataFrame and pd.to_datetime raises
\* ValueError ("cannot assemble with duplicate keys").
CleanDates ==
    /\ cpc = "dates"
    /\ LET k == Cardinality(ColumnsNamed(df, fecha_publicacion))
       IN  IF k = 0 THEN df' = df /\ cpc' = "returned"
           ELSE IF k = 1 THEN df' = DeriveDates(df) /\ cpc' = "returned"
           ELSE df' = df /\ cpc' = "raised"
    /\ UNCHANGED <<raw_in, raw_df, aliased>>


-----------------------------------------------------------------------------
(* Raw tables handed to limpiar_datos *)

\* raw column names
N_Pais  == <<80, 97, 105, 115, 32>>        \* 'Pais '
N_PAIS  == <<80, 65, 205, 83>>             \* 'PAÍS'
N_Fecha ==                                 \* 'Fecha Publicación'
    <<70, 101, 99, 104, 97, 32, 80, 117, 98, 108, 105, 99, 97, 99, 105, 243, 110>>
N_Odd   == <<216, 45, 9, 49>>              \* 'Ø-<TAB>1'

\* raw cells
S_NA      == Str(<<78, 47, 65>>)           \* 'N/A'
S_na      == Str(<<110, 47, 97>>)          \* 'n/a'
S_Empty   == Str(<<>>)                     \* ''
S_Mojibake == Str(<<195, 173>>)            \* 'Ã­': the UTF-8 bytes of 'í' read as latin-1
S_Accent  == Str(<<233>>)                  \* 'é': byte E9, no UTF-8 sequence
S_Mar15   ==                               \* '2021-03-15'
    Str(<<50, 48, 50, 49, 45, 48, 51, 45, 49, 53>>)
S_Feb30   ==                               \* '2021-02-30'
    Str(<<50, 48, 50, 49, 45, 48, 50, 45, 51, 48>>)
S_Dec01   ==                               \* '2020-12-01'
    Str(<<50, 48, 50, 48, 45, 49, 50, 45, 48, 49>>)

RawNames == {N_Pais, N_PAIS, N_Fecha, N_Odd}
RawCells == {Null, S_NA, S_na, S_Empty, S_Mojibake, S_Accent}

FechaNames == {N_Fecha, fecha_publicacion, N_Pais}
FechaCells == {Null, S_Mar15, S_Feb30, S_Dec01}
OtherCells == {S_na}

\* the cells a column called name may hold: any raw cell in the tables of
\* domain "any"; in those of domain "fechas", date-like cells in the columns
\* that become fecha_publicacion
CellsOf(domain, name) ==
    IF domain = "any" THEN RawCells
    ELSE IF name \in {N_Fecha, fecha_publicacion} THEN FechaCells
    ELSE OtherCells

\* 1..MaxCols distinctly named columns
ColumnSeqs(names) ==
    { cs \in UNION { [1..k -> names] : k \in 1..MaxCols } :
        \A a, b \in 1..Len(cs) : a # b => cs[a] # cs[b] }

\* the rows a table with columns cs may hold
RowsFor(cs, domain) ==
    { r \in [1..Len(cs) -> UNION { CellsOf(domain, cs[c]) : c \in 1..Len(cs) }] :
        \A c \in 1..Len(cs) : r[c] \in CellsOf(domain, cs[c]) }

\* limpiar_datos is called on a table with 1..MaxCols distinctly named
\* columns and 0..MaxRows rows
CleanCalled(names, domain) ==
    \E cs \in ColumnSeqs(names) : \E n \in 0..MaxRows :
        \E rs \in [1..n -> RowsFor(cs, domain)] :
            CleanBegin([cols |-> cs, rows |-> rs])

-----------------------------------------------------------------------------
(* generar_visualizaciones.  The stage reads a table through its column    *)
(* names, its row count and whether a column holds any non-null value, so  *)
(* a table object is held here as                                          *)
(*   [cols : set of column names, n : row count,                           *)
(*    full : the columns with at least one non-null value,                 *)
(*    sample_of : 0, or the identity of the object it was sampled from]    *)

\* line 109: the row count above which fast mode samples
SampleThreshold == 50000
\* line 110: rows of the sample
SampleSize == 30000
\* line 110: random_state
SampleSeed == 42

\* row counts of the clean tables tried: up to MaxExtraRows above the threshold
MaxExtraRows == 2

RowCounts ==
    {0, 1, SampleSize, SampleSize + 1}
        \cup ((SampleThreshold - 1)..(SampleThreshold + MaxExtraRows))

ChartColumns == {"pais", "genero", "fecha_publicacion"}

\* clean tables as limpiar_datos returns them: fecha_publicacion holds parsed
\* dates and comes with fecha_texto
CleanTables ==
    { [cols |-> cs \cup (IF "fecha_publicacion" \in cs THEN {"fecha_texto"} ELSE {}),
       n |-> n, full |-> fl, sample_of |-> 0] :
        cs \in SUBSET ChartColumns, n \in RowCounts, fl \in SUBSET ChartColumns }

WellFormed(t) == t.full \subseteq t.cols /\ (t.n = 0 => t.full = {})

\* the condition with the threshold itself sampled too (>= for >)
ShouldSample_AtThreshold(r, n) == r /\ n >= SampleThreshold

\* line 109: the condition of the fast-mode sample
ShouldSample(r, n) == r /\ n > SampleThreshold

\* line 110: df.sample(30000, random_state=42) is a new table of 30000 of the
\* rows; a column with non-null values may or may not keep one: fl says which do
SampleOf(id, t, fl) ==
    [cols |-> t.cols, n |-> SampleSize, full |-> fl, sample_of |-> id]

VizIdle ==
    /\ rapido = FALSE /\ clean_in = [cols |-> {}, n |-> 0, full |-> {}, sample_of |-> 0]
    /\ heap = <<>> /\ vdf = 0 /\ draws = <<>> /\ charts = <<>> /\ vpc = "idle"

\* line 102: the call binds local df to the caller's table object, object 1
VizCalled(t, r) ==
    /\ rapido = r /\ clean_in = t /\ heap = <<t>> /\ vdf = 1
    /\ draws = <<>> /\ charts = <<>> /\ vpc = "sample"

\* lines 109-111: in fast mode, above the threshold, df is rebound to a sample
VizSample ==
    /\ vpc = "sample"
    /\ IF ShouldSample(rapido, heap[vdf].n)
         THEN \E fl \in SUBSET heap[vdf].full :
                /\ heap' = Append(heap, SampleOf(vdf, heap[vdf], fl))
                /\ vdf' = Len(heap) + 1
                /\ draws' = Append(draws, SampleSeed)
         ELSE UNCHANGED <<heap, vdf, draws>>
    /\ vpc' = "pais"
    /\ UNCHANGED <<rapido, clean_in, charts>>

\* what a chart section read: the object, its rows, and whether it drew
Reading(section, drew) ==
    [section |-> section, obj |-> vdf, rows |-> heap[vdf].n, drew |-> drew]

\* lines 119-137: df['pais'].value_counts().head(10)
VizPais ==
    /\ vpc = "pais"
    /\ charts' = Append(charts,
                    Reading("pais", "pais" \in heap[vdf].cols /\ "pais" \in heap[vdf].full))
    /\ vpc' = "genero"
    /\ UNCHANGED <<rapido, clean_in, heap, vdf, draws>>

\* lines 139-156: df['genero'].value_counts()
VizGenero ==
    /\ vpc = "genero"
    /\ charts' = Append(charts,
                    Reading("genero", "genero" \in heap[vdf].cols /\ "genero" \in heap[vdf].full))
    /\ vpc' = "anual"
    /\ UNCHANGED <<rapido, clean_in, heap, vdf, draws>>

\* lines 158-178: df['fecha_publicacion'] = ... and df['anio'] = ... write
\* into the object df is bound to (parsed dates parse to themselves; the
\* years of a column with a date hold a value)
VizAnual ==
    /\ vpc = "anual"
    /\ LET t     == heap[vdf]
           dated == "fecha_publicacion" \in t.cols /\ "fecha_publicacion" \in t.full
       IN  /\ charts' = Append(charts, Reading("anual", dated))
           /\ heap' = IF dated
                      THEN [heap EXCEPT ![vdf] =
                              [t EXCEPT !.cols = t.cols \cup {"anio"},
                                        !.full = t.full \cup {"anio"}]]
                      ELSE heap
    /\ vpc' = "returned"
    /\ UNCHANGED <<rapido, clean_in, vdf, draws>>


-----------------------------------------------------------------------------
(* Entry point: prefetch_mensual, ejecutar_pipeline, __main__.  The        *)
(* pipeline's download runs as modelled above; limpiar_datos, to_csv and   *)
(* generar_visualizaciones appear by what they do to the output file.      *)

\* line 217: the age, in whole days, from which the file is stale
StaleDays == 30

\* ages tried for an existing file: around the threshold, up to MaxExtraDays above
MaxExtraDays == 1

Ages == {0} \cup ((StaleDays - 2)..(StaleDays + MaxExtraDays))

\* lines 209-221: the gate runs the pipeline
Stale(exists, age) == ~exists \/ age >= StaleDays

MainIdle ==
    /\ file_exists = FALSE /\ file_age = 0 /\ file0 = <<FALSE, 0>>
    /\ runs = <<>> /\ caller = "none" /\ mpc = "idle"

\* line 228: the process starts with the file absent, or present at some age
MainStarted(exists, age) ==
    /\ file_exists = exists /\ file_age = age /\ file0 = <<exists, age>>
    /\ runs = <<>> /\ caller = "none" /\ mpc = "gate"

\* lines 187-189: ejecutar_pipeline(r) called by who; its download meets server s
PipelineCall(r, who, s) ==
    /\ runs' = Append(runs, r)
    /\ caller' = who
    /\ mpc' = "descargar"
    /\ FetchBegin(s)
    /\ UNCHANGED <<file_exists, file_age, file0>>

\* lines 206-221: prefetch_mensual
Gate ==
    /\ mpc = "gate"
    /\ IF Stale(file_exists, file_age)
         THEN \E s \in Scripts : PipelineCall(FALSE, "gate", s)
         ELSE /\ mpc' = "main"
              /\ UNCHANGED <<file_exists, file_age, file0, runs, caller>>
              /\ UNCHANGED fetchVars

\* line 232: ejecutar_pipeline(rapido=True)
MainCall ==
    /\ mpc = "main"
    /\ \E s \in Scripts : PipelineCall(TRUE, "main", s)

\* line 189: descargar_datos_completos, step by step
PipelineDescargar ==
    /\ mpc = "descargar"
    /\ FetchStep
    /\ UNCHANGED mainVars

\* line 189: the ValueError of pd.concat leaves ejecutar_pipeline,
\* prefetch_mensual and __main__, none of which catches it
PipelineRaise ==
    /\ mpc = "descargar"
    /\ fpc = "raised"
    /\ mpc' = "crashed"
    /\ UNCHANGED <<file_exists, file_age, file0, runs, caller>>
    /\ UNCHANGED fetchVars

\* lines 190-196: limpiar_datos, then to_csv writes the output file anew
PipelineSave ==
    /\ mpc = "descargar"
    /\ fpc = "returned"
    /\ file_exists' = TRUE
    /\ file_age' = 0
    /\ mpc' = "visualizar"
    /\ UNCHANGED <<file0, runs, caller>>
    /\ UNCHANGED fetchVars

\* lines 198-199, then the return to the caller: line 212 / 219 into
\* line 232, or line 232 into line 240
PipelineReturn ==
    /\ mpc = "visualizar"
    /\ mpc' = IF caller = "gate" THEN "main" ELSE "done"
    /\ UNCHANGED <<file_exists, file_age, file0, runs, caller>>
    /\ UNCHANGED fetchVars

-----------------------------------------------------------------------------
(* Specifications *)

\* descargar_datos_completos against every server script
InitFetch ==
    /\ \E s \in Scripts : FetchCalled(s)
    /\ CleanIdle /\ VizIdle /\ MainIdle

NextFetch ==
    \/ FetchRequest /\ UNCHANGED <<cleanVars, vizVars, mainVars>>
    \/ FetchHandle /\ UNCHANGED <<cleanVars, vizVars, mainVars>>
    \/ FetchConcat /\ UNCHANGED <<cleanVars, vizVars, mainVars>>

SpecFetch == InitFetch /\ [][NextFetch]_vars

NextClean ==
    \/ CleanRepair /\ UNCHANGED <<fetchVars, vizVars, mainVars>>
    \/ CleanDropna /\ UNCHANGED <<fetchVars, vizVars, mainVars>>
    \/ CleanDropDuplicates /\ UNCHANGED <<fetchVars, vizVars, mainVars>>
    \/ CleanReplace /\ UNCHANGED <<fetchVars, vizVars, mainVars>>
    \/ CleanRename /\ UNCHANGED <<fetchVars, vizVars, mainVars>>
    \/ CleanDates /\ UNCHANGED <<fetchVars, vizVars, mainVars>>

\* limpiar_datos on every raw table over RawNames and RawCells
InitClean ==
    /\ CleanCalled(RawNames, "any")
    /\ FetchIdle /\ VizIdle /\ MainIdle

SpecClean == InitClean /\ [][NextClean]_vars

\* limpiar_datos on every raw table with dates over FechaNames
InitFechas ==
    /\ CleanCalled(FechaNames, "fechas")
    /\ FetchIdle /\ VizIdle /\ MainIdle

SpecFechas == InitFechas /\ [][NextClean]_vars

\* generar_visualizaciones on every clean table, in both modes
InitViz ==
    /\ \E t \in { x \in CleanTables : WellFormed(x) }, r \in BOOLEAN : VizCalled(t, r)
    /\ FetchIdle /\ CleanIdle /\ MainIdle

NextViz ==
    \/ VizSample /\ UNCHANGED <<fetchVars, cleanVars, mainVars>>
    \/ VizPais /\ UNCHANGED <<fetchVars, cleanVars, mainVars>>
    \/ VizGenero /\ UNCHANGED <<fetchVars, cleanVars, mainVars>>
    \/ VizAnual /\ UNCHANGED <<fetchVars, cleanVars, mainVars>>

SpecViz == InitViz /\ [][NextViz]_vars

\* the process, from every state of the output file
InitMain ==
    /\ \/ MainStarted(FALSE, 0)
       \/ \E a \in Ages : MainStarted(TRUE, a)
    /\ FetchIdle /\ CleanIdle /\ VizIdle

NextMain ==
    \/ Gate /\ UNCHANGED <<cleanVars, vizVars>>
    \/ MainCall /\ UNCHANGED <<cleanVars, vizVars>>
    \/ PipelineDescargar /\ UNCHANGED <<cleanVars, vizVars>>
    \/ PipelineRaise /\ UNCHANGED <<cleanVars, vizVars>>
    \/ PipelineSave /\ UNCHANGED <<cleanVars, vizVars>>
    \/ PipelineReturn /\ UNCHANGED <<cleanVars, vizVars>>

SpecMain == InitMain /\ [][NextMain]_vars

-----------------------------------------------------------------------------
(* Properties *)

\* s holds sub as a run of consecutive characters
HasSubstring(s, sub) ==
    \E i \in 0..(Len(s) - Len(sub)) : SubSeq(s, i + 1, i + Len(sub)) = sub

\* the characters a normalized column name may hold: a-z, 0-9, _
NameChar(c) == c \in 97..122 \/ c \in 48..57 \/ c = 95

\* C1: every row of the table limpiar_datos returns has at least one
\* non-absent field, also a row whose raw fields were only sentinel strings
\* and absent values.
C1_NoEmptyRow ==
    cpc = "returned" =>
        \A i \in 1..Len(df.rows) : \E c \in 1..Len(df.cols) : df.rows[i][c] # Null

\* C2: no two rows at different indices of the table limpiar_datos returns
\* are equal in every column.
C2_NoDuplicateRows ==
    cpc = "returned" =>
        \A i, j \in 1..Len(df.rows) : i # j => df.rows[i] # df.rows[j]

\* the responses before the first one that stops the loop
RECURSIVE LeadingPages(_)
LeadingPages(s) ==
    IF s = <<>> \/ Terminal(Head(s)) THEN <<>>
    ELSE <<Head(s).page>> \o LeadingPages(Tail(s))

\* C3: when the first k responses are non-empty 200 pages and the next is a
\* non-200 status or an empty page, descargar_datos_completos ends without an
\* exception, has issued exactly the requests at offsets 0, limit, ...,
\* k*limit, and returns the k pages concatenated in arrival order (for k = 0
\* the empty table).
C3_PartialFetch ==
    LET k == Len(LeadingPages(responses))
    IN  fpc \in {"returned", "raised"} =>
            /\ fpc = "returned"
            /\ fetched = Flatten(LeadingPages(responses))
            /\ requests = [i \in 1..(k + 1) |-> (i - 1) * 50000]

\* C3 for k >= 1 only: with at least one page kept, the download returns the
\* kept pages in order after k + 1 requests.
C3_PartialFetchFromOnePage ==
    LET k == Len(LeadingPages(responses))
    IN  (fpc \in {"returned", "raised"} /\ k >= 1) =>
            /\ fpc = "returned"
            /\ fetched = Flatten(LeadingPages(responses))
            /\ requests = [i \in 1..(k + 1) |-> (i - 1) * 50000]

\* C4: the pipeline runs of one process are fixed by the output file at
\* start: [full, fast] when the file is absent or 30 or more days old, [fast]
\* alone when it is younger, the gate then making no request and leaving the
\* file alone; so the fast run happens exactly once.
C4_RunsByFileState ==
    LET stale == ~file0[1] \/ file0[2] >= 30
    IN  /\ mpc \in {"done", "crashed"} =>
              runs = IF stale THEN <<FALSE, TRUE>> ELSE <<TRUE>>
        /\ (mpc = "main" /\ ~stale) =>
              /\ runs = <<>>
              /\ requests = <<>>
              /\ <<file_exists, file_age>> = file0

\* C4 for the processes that reach line 240: the runs are as C4 says.
C4_RunsWhenCompleted ==
    LET stale == ~file0[1] \/ file0[2] >= 30
    IN  /\ mpc = "done" => runs = IF stale THEN <<FALSE, TRUE>> ELSE <<TRUE>>
        /\ (mpc = "main" /\ ~stale) =>
              /\ runs = <<>>
              /\ requests = <<>>
              /\ <<file_exists, file_age>> = file0

\* C5: every column name of the table limpiar_datos returns is made of
\* lowercase ASCII letters, digits and underscores only.
C5_AsciiColumnNames ==
    cpc = "returned" =>
        \A c \in 1..Len(df.cols) : \A i \in 1..Len(df.cols[c]) : NameChar(df.cols[c][i])

\* Spanish month names, January first
MesesDelAnio ==
    << <<101, 110, 101, 114, 111>>, <<102, 101, 98, 114, 101, 114, 111>>,
       <<109, 97, 114, 122, 111>>, <<97, 98, 114, 105, 108>>,
       <<109, 97, 121, 111>>, <<106, 117, 110, 105, 111>>,
       <<106, 117, 108, 105, 111>>, <<97, 103, 111, 115, 116, 111>>,
       <<115, 101, 112, 116, 105, 101, 109, 98, 114, 101>>,
       <<111, 99, 116, 117, 98, 114, 101>>,
       <<110, 111, 118, 105, 101, 109, 98, 114, 101>>,
       <<100, 105, 99, 105, 101, 109, 98, 114, 101>> >>

\* the decimal digits of a number below 10000, without leading zeros
Digits(n) ==
    LET all == <<48 + (n \div 1000), 48 + ((n \div 100) % 10),
                 48 + ((n \div 10) % 10), 48 + (n % 10)>>
        lead == IF n >= 1000 THEN 1 ELSE IF n >= 100 THEN 2
                ELSE IF n >= 10 THEN 3 ELSE 4
    IN  SubSeq(all, lead, 4)

\* C6: in the step that derives the dates of a returned table with a
\* fecha_publicacion column, for every row: fecha_texto is non-null exactly
\* when fecha_publicacion is; an absent or unparseable raw date gives null in
\* both; a non-null fecha_texto is "<day> de <Spanish month> de <year>" of
\* the row's date and holds the year's digits; 2021-03-15 gives
\* "15 de marzo de 2021".
C6_FechaTexto ==
    [][ (cpc = "dates" /\ cpc' = "returned"
            /\ ColumnsNamed(df', fecha_publicacion) # {}) =>
          /\ ColumnsNamed(df', fecha_texto) # {}
          /\ \A f \in ColumnsNamed(df', fecha_publicacion) :
             \A x \in ColumnsNamed(df', fecha_texto) :
             \A i \in 1..Len(df'.rows) :
                LET raw   == df.rows[i][f]
                    fecha == df'.rows[i][f]
                    texto == df'.rows[i][x]
                IN  /\ (texto # Null) <=> (fecha # Null)
                    /\ raw \in {Null, S_Feb30} => (fecha = Null /\ texto = Null)
                    /\ raw = S_Mar15 =>
                         /\ fecha = Date(2021, 3, 15)
                         /\ texto = Str(<<49, 53, 32, 100, 101, 32, 109, 97, 114,
                                          122, 111, 32, 100, 101, 32, 50, 48, 50, 49>>)
                    /\ fecha # Null =>
                         /\ IsStr(texto)
                         /\ texto.s = Digits(fecha.d) \o <<32, 100, 101, 32>>
                                        \o MesesDelAnio[fecha.m] \o <<32, 100, 101, 32>>
                                        \o Digits(fecha.y)
                         /\ HasSubstring(texto.s, Digits(fecha.y))
      ]_vars

\* C6 happens: a returned table with a dated row (date and text set) and an
\* undated one (both null)
C6_Witness ==
    /\ cpc = "returned"
    /\ \E f \in ColumnsNamed(df, fecha_publicacion) :
       \E x \in ColumnsNamed(df, fecha_texto) :
       \E i, j \in 1..Len(df.rows) :
          /\ df.rows[i][f] = Date(2021, 3, 15) /\ df.rows[i][x] # Null
          /\ df.rows[j][f] = Null /\ df.rows[j][x] = Null

\* C7: in fast mode on a table of more than 50,000 rows the three chart
\* sections all read one and the same 30,000-row sample, drawn once with
\* seed 42; otherwise all three read the full table and nothing is sampled.
C7_OneSampleForAllCharts ==
    vpc = "returned" =>
        /\ Len(charts) = 3
        /\ IF rapido /\ clean_in.n > 50000
           THEN /\ draws = <<42>>
                /\ Len(heap) = 2
                /\ heap[2].sample_of = 1
                /\ \A i \in 1..3 : charts[i].obj = 2 /\ charts[i].rows = 30000
           ELSE /\ draws = <<>>
                /\ \A i \in 1..3 : charts[i].obj = 1 /\ charts[i].rows = clean_in.n

\* C7 happens: a fast run over more than 50,000 rows that drew all three charts
C7_Witness ==
    /\ vpc = "returned"
    /\ rapido /\ clean_in.n > 50000
    /\ \A i \in 1..3 : charts[i].drew

\* C8: after the encoding pass every text value of every text column is its
\* latin-1 / UTF-8 reinterpretation when that succeeds and is unchanged when
\* it fails, whatever the other values of its column do.
C8_RepairPerValue ==
    cpc = "dropna" =>
        \A c \in ObjectColumns(raw_in) : \A i \in 1..Len(raw_in.rows) :
            LET old == raw_in.rows[i][c]
            IN  IsStr(old) =>
                  df.rows[i][c] = IF RepairRaises(old) THEN old ELSE RepairValue(old)

\* C9: after the renaming step every normalized name is the name of exactly
\* one column, which holds the cells of the last raw column normalizing to it.
C9_LastColumnWins ==
    [][ cpc = "rename" =>
          \A c \in 1..Len(df.cols) :
             LET name == normalizar_columna(df.cols[c])
                 same == { d \in 1..Len(df.cols) : normalizar_columna(df.cols[d]) = name }
                 last == CHOOSE d \in same : \A e \in same : e <= d
             IN  /\ Cardinality(ColumnsNamed(df', name)) = 1
                 /\ \A e \in ColumnsNamed(df', name) : Column(df', e) = Column(df, last)
      ]_vars

\* C10: limpiar_datos leaves the caller's raw table as it was handed over,
\* and generar_visualizaciones leaves the caller's clean table as it was
\* handed over.
C10_CallerTableUnchanged ==
    /\ cpc # "idle" => raw_df = raw_in
    /\ vpc # "idle" => heap[1] = clean_in

=============================================================================
